---- MODULE Spec2Model ----
(***************************************************************************)
(* Quota tracking and command dispatch of chatgpt_discord_bot_v1.0.py.     *)
(*                                                                         *)
(* Time is counted in minutes.  A message handler (on_message) runs on a   *)
(* single-threaded event loop: it can be interleaved with other handlers   *)
(* only at its awaits, which are all `await message.channel.send(...)`.    *)
(* The OpenAI calls are synchronous: while one is outstanding the event    *)
(* loop is blocked, only the wall clock moves.                             *)
(***************************************************************************)
EXTENDS Integers, Sequences, FiniteSets, TLC

\* ---------------------------------------------------------------- constants
REQUEST_LIMIT == 24
IMAGE_REQUEST_LIMIT == 12
RESET_HOURS == 24

SecondsPerHour == 3600
SecondsPerMinute == 60
MinutesPerHour == SecondsPerHour \div SecondsPerMinute
SecondsPerDay == 86400
MinutesPerDay == SecondsPerDay \div SecondsPerMinute

\* ------------------------------------------------------------------- bounds
MaxTime == 2161
MaxAttachments == 2
MaxTasks == 2
Extra == 2

Users == {"u1", "u2"}
Bot == "bot"
Authors == Users \cup {Bot}
Tasks == 1..MaxTasks
TickSteps == {12 * MinutesPerHour, 12 * MinutesPerHour + 1}

\* message texts, as character sequences
AskQ == <<"!", "a", "s", "k", " ", "q">>
Asking == <<"!", "a", "s", "k", "i", "n", "g">>
MakeCat == <<"!", "m", "a", "k", "e", " ", "c", "a", "t">>
Hello == <<"h", "i", " ", "!", "a", "s", "k">>
Contents == {AskQ, Asking, MakeCat, Hello}

Messages == [author : Authors, content : Contents, attachments : 0..MaxAttachments]

Msg(a, c, k) == [author |-> a, content |-> c, attachments |-> k]

VARIABLES
  clock,              \* datetime.now(), in minutes
  user_request_data,  \* the in-memory mapping user id -> record
  file,               \* the content of user_requests.json
  task,               \* the on_message coroutines in flight
  admitted,           \* per user and capability: requests admitted since the last reset
  inbound,            \* the messages the platform will still deliver, with their numbers
  probe               \* two calls of time_until_reset on one record: times and results

vars == <<clock, user_request_data, file, task, admitted, inbound, probe>>

\* ------------------------------------------------------------ pure helpers
SetField(f, k, v) == [x \in DOMAIN f \cup {k} |-> IF x = k THEN v ELSE f[x]]

\* datetime.isoformat / datetime.fromisoformat: day, hour, minute fields
isoformat(t) ==
  <<t \div MinutesPerDay, (t % MinutesPerDay) \div MinutesPerHour, t % MinutesPerHour>>

fromisoformat(s) == s[1] * MinutesPerDay + s[2] * MinutesPerHour + s[3]

\* timedelta(hours=h), in minutes
timedelta(h) == h * MinutesPerHour

\* timedelta.seconds of a duration of d minutes (d may be negative):
\* the duration is normalised to days + seconds with 0 <= seconds < 86400
timedelta_seconds(d) == (d * SecondsPerMinute) % SecondsPerDay

\* the test "p in s" in place of s.startswith(p)
startswith_Anywhere(s, p) ==
  \E i \in 1..Len(s) : i + Len(p) - 1 <= Len(s) /\ SubSeq(s, i, i + Len(p) - 1) = p

\* str.startswith
startswith(s, p) == Len(s) >= Len(p) /\ SubSeq(s, 1, Len(p)) = p

ASK == <<"!", "a", "s", "k">>
MAKE == <<"!", "m", "a", "k", "e">>

Has(rec, k) == k \in DOMAIN rec

\* ------------------------------------------------------------- quota store
\* the window test with >= in place of >
Expired_AtBoundary(now, last) == now - last >= timedelta(RESET_HOURS)

\* the window test that never fires
Expired_Never(now, last) == FALSE

\* the window test with the comparison turned round
Expired_Inverted(now, last) == now - last < timedelta(RESET_HOURS)

\* the window test of lines 64 and 68
Expired(now, last) == now - last > timedelta(RESET_HOURS)

\* the refresh that gives a missing image timestamp the value of the text one
check_and_reset_user_count_CopiedStamp(data, user_id, now) ==
  IF user_id \notin DOMAIN data
  THEN SetField(data, user_id,
         [count |-> 0, image_count |-> 0,
          last_reset |-> isoformat(now), last_image_reset |-> isoformat(now)])
  ELSE
    LET r0 == data[user_id]
        r1 == IF Has(r0, "last_reset") THEN r0 ELSE SetField(r0, "last_reset", isoformat(now))
        r2 == IF Has(r1, "image_count") THEN r1 ELSE SetField(r1, "image_count", 0)
        r3 == IF Has(r2, "last_image_reset") THEN r2
              ELSE SetField(r2, "last_image_reset", r2["last_reset"])
        last_reset == fromisoformat(r3["last_reset"])
        last_image_reset == fromisoformat(r3["last_image_reset"])
        r4 == IF Expired(now, last_reset)
              THEN SetField(SetField(r3, "count", 0), "last_reset", isoformat(now))
              ELSE r3
        r5 == IF Expired(now, last_image_reset)
              THEN SetField(SetField(r4, "image_count", 0), "last_image_reset", isoformat(now))
              ELSE r4
    IN SetField(data, user_id, r5)

\* the refresh whose image test reads the text window
check_and_reset_user_count_Coupled(data, user_id, now) ==
  IF user_id \notin DOMAIN data
  THEN SetField(data, user_id,
         [count |-> 0, image_count |-> 0,
          last_reset |-> isoformat(now), last_image_reset |-> isoformat(now)])
  ELSE
    LET r0 == data[user_id]
        r1 == IF Has(r0, "last_reset") THEN r0 ELSE SetField(r0, "last_reset", isoformat(now))
        r2 == IF Has(r1, "image_count") THEN r1 ELSE SetField(r1, "image_count", 0)
        r3 == IF Has(r2, "last_image_reset") THEN r2
              ELSE SetField(r2, "last_image_reset", isoformat(now))
        last_reset == fromisoformat(r3["last_reset"])
        last_image_reset == fromisoformat(r3["last_image_reset"])
        r4 == IF Expired(now, last_reset)
              THEN SetField(SetField(r3, "count", 0), "last_reset", isoformat(now))
              ELSE r3
        r5 == IF Expired(now, last_reset)
              THEN SetField(SetField(r4, "image_count", 0), "last_image_reset", isoformat(now))
              ELSE r4
    IN SetField(data, user_id, r5)

\* lines 41-73
check_and_reset_user_count(data, user_id, now) ==
  IF user_id \notin DOMAIN data
  THEN SetField(data, user_id,
         [count |-> 0, image_count |-> 0,
          last_reset |-> isoformat(now), last_image_reset |-> isoformat(now)])
  ELSE
    LET r0 == data[user_id]
        r1 == IF Has(r0, "last_reset") THEN r0 ELSE SetField(r0, "last_reset", isoformat(now))
        r2 == IF Has(r1, "image_count") THEN r1 ELSE SetField(r1, "image_count", 0)
        r3 == IF Has(r2, "last_image_reset") THEN r2
              ELSE SetField(r2, "last_image_reset", isoformat(now))
        last_reset == fromisoformat(r3["last_reset"])
        last_image_reset == fromisoformat(r3["last_image_reset"])
        r4 == IF Expired(now, last_reset)
              THEN SetField(SetField(r3, "count", 0), "last_reset", isoformat(now))
              ELSE r3
        r5 == IF Expired(now, last_image_reset)
              THEN SetField(SetField(r4, "image_count", 0), "last_image_reset", isoformat(now))
              ELSE r4
    IN SetField(data, user_id, r5)

\* time_until_reset: the pair <<hours, minutes>> printed as "{hours}h{minutes}m"
time_until_reset(data, user_id, reset_type, now) ==
  LET last_reset == fromisoformat(data[user_id][reset_type])
      reset_time == last_reset + timedelta(RESET_HOURS)
      time_remaining == reset_time - now
      seconds == timedelta_seconds(time_remaining)
      hours == seconds \div SecondsPerHour
      remainder == seconds % SecondsPerHour
      minutes == remainder \div SecondsPerMinute
  IN <<hours, minutes>>

\* --------------------------------------------------- external capabilities
\* exception classes of the openai package, each with its base classes
Mro(exc) ==
  CASE exc = "APIError" -> {"APIError", "Exception"}
    [] exc = "APIConnectionError" -> {"APIConnectionError", "APIError", "Exception"}
    [] exc = "RateLimitError" -> {"RateLimitError", "APIStatusError", "APIError", "Exception"}
    [] exc = "AuthenticationError" ->
         {"AuthenticationError", "APIStatusError", "APIError", "Exception"}
    [] OTHER -> {"Exception"}

\* what a capability call can raise
Raised == {"APIError", "APIConnectionError", "RateLimitError", "AuthenticationError", "Exception"}

\* outcome of client.chat.completions.create / client.images.generate
Outcomes == {"ok"} \cup Raised

\* the except clauses of on_message, in source order (the same for !ask and !make)
ExceptClauses ==
  <<"APIError", "APIConnectionError", "RateLimitError", "AuthenticationError", "Exception">>

\* the clause that handles exc: the first one naming exc's class or a base class of it
Caught(exc) ==
  LET i == CHOOSE j \in 1..Len(ExceptClauses) :
             /\ ExceptClauses[j] \in Mro(exc)
             /\ \A k \in 1..(j - 1) : ExceptClauses[k] \notin Mro(exc)
  IN ExceptClauses[i]

\* the text sent by each except clause
ApologyText(kind, clause) ==
  CASE clause = "APIError" ->
         IF kind = "text"
         THEN "Sorry, there was an issue with the AI service. Please try again later."
         ELSE "Sorry, there was an issue with the image generation service. Please try again later."
    [] clause = "APIConnectionError" ->
         IF kind = "text"
         THEN "Sorry, I couldn't connect to the AI service. Please check your connection and try again."
         ELSE "Sorry, I couldn't connect to the image generation service. Please check your connection and try again."
    [] clause = "RateLimitError" ->
         IF kind = "text"
         THEN "Sorry, I'm receiving too many requests at once. Please try again in a moment."
         ELSE "Sorry, I'm receiving too many image requests at once. Please try again in a moment."
    [] clause = "AuthenticationError" ->
         "Sorry, it looks like I've run out of credits. Please check back later or contact support."
    [] OTHER -> "Sorry, something went wrong."

AnswerText(kind) ==
  IF kind = "text" THEN "response.choices[0].message.content.strip()"
  ELSE "Here is your generated image: {image_url}"

DenialText(kind) ==
  IF kind = "text"
  THEN "Sorry, you've reached the maximum number of requests allowed for today. Please wait {wait_time} before trying again."
  ELSE "Sorry, you've reached the maximum number of image requests allowed for today. Please wait {wait_time} before trying again."

NoWait == <<>>

\* ------------------------------------------------------------- dispatcher
CountField(kind) == IF kind = "text" THEN "count" ELSE "image_count"

\* the reset types exchanged
ResetField_Swapped(kind) == IF kind = "text" THEN "last_image_reset" ELSE "last_reset"

ResetField(kind) == IF kind = "text" THEN "last_reset" ELSE "last_image_reset"
Limit(kind) == IF kind = "text" THEN REQUEST_LIMIT ELSE IMAGE_REQUEST_LIMIT

\* the branch of on_message a message text selects
Classify(content) ==
  IF startswith(content, ASK) THEN "text"
  ELSE IF startswith(content, MAKE) THEN "image"
  ELSE "none"

\* the limit test with > in place of >=
AtLimit_Strict(rec, kind) == rec[CountField(kind)] > Limit(kind)

\* the limit test of lines 100 and 164
AtLimit(rec, kind) == rec[CountField(kind)] >= Limit(kind)

\* the increment that is lost
Consume_Lost(data, user_id, kind) == data

\* the increment that counts twice
Consume_Twice(data, user_id, kind) ==
  SetField(data, user_id,
           SetField(data[user_id], CountField(kind), data[user_id][CountField(kind)] + 2))

\* the increment that counts the request against every user
Consume_Everyone(data, user_id, kind) ==
  [u \in DOMAIN data |->
     IF Has(data[u], CountField(kind))
     THEN SetField(data[u], CountField(kind), data[u][CountField(kind)] + 1)
     ELSE data[u]]

\* user_request_data[user_id][...] += 1
Consume(data, user_id, kind) ==
  SetField(data, user_id,
           SetField(data[user_id], CountField(kind), data[user_id][CountField(kind)] + 1))

\* the save that writes nothing
save_user_request_data_Forgotten(data) == file

\* save_user_request_data: json.dump of the whole mapping
save_user_request_data(data) == data

\* the handler that looks at the first attachment only
Calls_FirstOnly(kind, attachments) == 1

\* number of capability calls an admitted message makes when none fails
Calls(kind, attachments) ==
  IF kind = "text" /\ attachments > 0 THEN attachments ELSE 1

IdleTask ==
  [pc |-> "idle", user |-> "none", kind |-> "none", left |-> 0, last |-> FALSE,
   window |-> NoWait, exc |-> "none", reply |-> "none", wait |-> NoWait,
   attachments |-> 0, calls |-> 0]

\* the event loop is held by a handler that is between two awaits
Blocked == \E h \in Tasks : task[h].pc \in {"denied", "calling"}

FreeSlot(h) ==
  /\ task[h].pc = "idle"
  /\ \A k \in Tasks : k < h => task[k].pc # "idle"

\* ghost: requests admitted since the last reset, after the refresh of user_id
AdmittedAfterRefresh(data, refreshed, user_id) ==
  LET fresh(kind) ==
        \/ user_id \notin DOMAIN data
        \/ ~Has(data[user_id], CountField(kind))
        \/ /\ Has(data[user_id], ResetField(kind))
           /\ refreshed[user_id][ResetField(kind)] # data[user_id][ResetField(kind)]
  IN [admitted EXCEPT ![user_id] =
        [text |-> IF fresh("text") THEN 0 ELSE @.text,
         image |-> IF fresh("image") THEN 0 ELSE @.image]]

\* on_message, from its start to its first await (or to its return)
on_message(h, message) ==
  /\ ~Blocked
  /\ FreeSlot(h)
  /\ message \in DOMAIN inbound
  /\ inbound[message] > 0
  /\ inbound' = [inbound EXCEPT ![message] = @ - 1]
  /\ UNCHANGED <<clock, probe>>
  /\ IF message.author = Bot
     THEN UNCHANGED <<user_request_data, file, task, admitted>>
     ELSE
       LET user_id == message.author
           now == clock
           refreshed == check_and_reset_user_count(user_request_data, user_id, now)
           kind == Classify(message.content)
           adm == AdmittedAfterRefresh(user_request_data, refreshed, user_id)
       IN IF kind = "none"
          THEN /\ user_request_data' = refreshed
               /\ file' = save_user_request_data(refreshed)
               /\ admitted' = adm
               /\ UNCHANGED task
          ELSE IF ~Has(refreshed[user_id], CountField(kind))
          THEN \* KeyError at the limit test: the handler ends there
               /\ user_request_data' = refreshed
               /\ file' = save_user_request_data(refreshed)
               /\ admitted' = adm
               /\ UNCHANGED task
          ELSE IF AtLimit(refreshed[user_id], kind)
          THEN /\ user_request_data' = refreshed
               /\ file' = save_user_request_data(refreshed)
               /\ admitted' = adm
               /\ task' = [task EXCEPT ![h] =
                    [IdleTask EXCEPT !.pc = "denied", !.user = user_id, !.kind = kind,
                                     !.window = refreshed[user_id][ResetField(kind)]]]
          ELSE LET consumed == Consume(refreshed, user_id, kind)
               IN /\ user_request_data' = consumed
                  /\ file' = save_user_request_data(consumed)
                  /\ admitted' = [adm EXCEPT ![user_id][kind] = @ + 1]
                  /\ task' = [task EXCEPT ![h] =
                       [IdleTask EXCEPT !.pc = "calling", !.user = user_id, !.kind = kind,
                                        !.window = refreshed[user_id][ResetField(kind)],
                                        !.last = (refreshed[user_id][CountField(kind)] + 1 = Limit(kind)),
                                        !.left = Calls(kind, message.attachments) - 1,
                                        !.attachments = message.attachments,
                                        !.calls = 1]]

\* lines 101-102 / 165-166: compute the wait time and start sending the denial
deny(h) ==
  /\ task[h].pc = "denied"
  /\ task' = [task EXCEPT ![h].pc = "sending",
                          ![h].reply = DenialText(task[h].kind),
                          ![h].wait = time_until_reset(user_request_data, task[h].user,
                                                       ResetField(task[h].kind), clock)]
  /\ UNCHANGED <<clock, user_request_data, file, admitted, inbound, probe>>

\* the call whose failure gives the slot back
call_returns_Refund(h, outcome) ==
  /\ task[h].pc = "calling"
  /\ IF outcome = "ok"
     THEN /\ task' = [task EXCEPT ![h].pc = "sending", ![h].reply = AnswerText(task[h].kind)]
          /\ UNCHANGED <<user_request_data, file>>
     ELSE /\ task' = [task EXCEPT ![h].pc = "sending", ![h].exc = outcome, ![h].left = 0,
                                  ![h].reply = ApologyText(task[h].kind, Caught(outcome))]
          /\ user_request_data' =
               SetField(user_request_data, task[h].user,
                        SetField(user_request_data[task[h].user], CountField(task[h].kind),
                                 user_request_data[task[h].user][CountField(task[h].kind)] - 1))
          /\ file' = user_request_data'
  /\ UNCHANGED <<clock, admitted, inbound, probe>>

\* the synchronous capability call returns or raises; the handler starts
\* sending the answer or the apology of the except clause that catches it
call_returns(h, outcome) ==
  /\ task[h].pc = "calling"
  /\ IF outcome = "ok"
     THEN task' = [task EXCEPT ![h].pc = "sending", ![h].reply = AnswerText(task[h].kind)]
     ELSE task' = [task EXCEPT ![h].pc = "sending", ![h].exc = outcome, ![h].left = 0,
                               ![h].reply = ApologyText(task[h].kind, Caught(outcome))]
  /\ UNCHANGED <<clock, user_request_data, file, admitted, inbound, probe>>

\* the handler that tries the call again after an apology
send_done_Retry(h) ==
  /\ ~Blocked
  /\ task[h].pc = "sending"
  /\ IF task[h].left > 0 \/ task[h].exc # "none"
     THEN task' = [task EXCEPT ![h].pc = "calling", ![h].left = 0, ![h].reply = "none",
                               ![h].exc = "none", ![h].calls = @ + 1]
     ELSE task' = [task EXCEPT ![h] = IdleTask]
  /\ UNCHANGED <<clock, user_request_data, file, admitted, inbound, probe>>

\* await message.channel.send(...) completes: next attachment, or the handler returns
send_done(h) ==
  /\ ~Blocked
  /\ task[h].pc = "sending"
  /\ IF task[h].left > 0
     THEN task' = [task EXCEPT ![h].pc = "calling", ![h].left = @ - 1, ![h].reply = "none",
                               ![h].calls = @ + 1]
     ELSE task' = [task EXCEPT ![h] = IdleTask]
  /\ UNCHANGED <<clock, user_request_data, file, admitted, inbound, probe>>

\* the wall clock advances
Tick(d) ==
  /\ clock + d <= MaxTime
  /\ clock' = clock + d
  /\ UNCHANGED <<user_request_data, file, task, admitted, inbound, probe>>

\* -------------------------------------------------------------- start-up
EmptyMap == [u \in {} |-> 0]

\* lines 28-34: the mapping is loaded from the file, or both start empty
Load(f) == f

Record(c, i, lr, lir) ==
  [count |-> c, image_count |-> i, last_reset |-> isoformat(lr), last_image_reset |-> isoformat(lir)]

\* a record written by a version of the bot that had no image quota
LegacyRecord(c, lr) == [count |-> c, last_reset |-> isoformat(lr)]

\* a bag of messages from a set of <<message, number>> pairs
Bag(S) == [m \in {p[1] : p \in S} |-> (CHOOSE p \in S : p[1] = m)[2]]

\* what the bot can find when it starts: the time, the file, and the traffic to come
Boots ==
  { [clock |-> MaxTime, file |-> EmptyMap,
     inbound |-> Bag({<<Msg("u1", AskQ, 0), REQUEST_LIMIT + Extra>>,
                      <<Msg("u1", AskQ, MaxAttachments), 1>>})],
    [clock |-> MaxTime, file |-> EmptyMap,
     inbound |-> Bag({<<Msg("u1", MakeCat, 0), IMAGE_REQUEST_LIMIT + Extra>>})],
    [clock |-> MaxTime, file |-> EmptyMap,
     inbound |-> Bag({<<Msg("u1", Asking, 1), 1>>, <<Msg("u1", MakeCat, 0), 1>>,
                      <<Msg("u2", MakeCat, 1), 1>>, <<Msg("u2", Hello, 0), 1>>,
                      <<Msg(Bot, AskQ, 0), 1>>})],
    [clock |-> timedelta(RESET_HOURS),
     file |-> SetField(EmptyMap, "u1", Record(REQUEST_LIMIT - 1, IMAGE_REQUEST_LIMIT - 1, 0, 0)),
     inbound |-> Bag({<<Msg("u1", AskQ, 0), Extra>>, <<Msg("u1", MakeCat, 0), 1>>})],
    [clock |-> 12 * MinutesPerHour,
     file |-> SetField(EmptyMap, "u1", LegacyRecord(REQUEST_LIMIT - 1, 0)),
     inbound |-> Bag({<<Msg("u1", Asking, 0), Extra>>, <<Msg("u1", MakeCat, 0), 1>>})],
    [clock |-> MaxTime,
     file |-> SetField(EmptyMap, "u1", Record(REQUEST_LIMIT, 0, MaxTime, MaxTime)),
     inbound |-> Bag({<<Msg("u1", AskQ, 1), 1>>, <<Msg("u1", MakeCat, 1), 1>>,
                      <<Msg("u2", AskQ, MaxAttachments), 1>>, <<Msg("u2", MakeCat, 0), 1>>})] }

\* no call of time_until_reset outside a handler
NoProbe == [reset_type |-> "none", t1 |-> 0, t2 |-> 0, w1 |-> NoWait, w2 |-> NoWait]

AdmittedIn(f) ==
  [u \in Users |->
     [text |-> IF u \in DOMAIN f /\ Has(f[u], "count") THEN f[u]["count"] ELSE 0,
      image |-> IF u \in DOMAIN f /\ Has(f[u], "image_count") THEN f[u]["image_count"] ELSE 0]]

Init ==
  \E b \in Boots :
    /\ clock = b.clock
    /\ file = b.file
    /\ user_request_data = Load(b.file)
    /\ task = [h \in Tasks |-> IdleTask]
    /\ admitted = AdmittedIn(b.file)
    /\ inbound = b.inbound
    /\ probe = NoProbe

OnMessage == \E h \in Tasks, m \in Messages : on_message(h, m)
Deny == \E h \in Tasks : deny(h)
CallReturns == \E h \in Tasks, o \in Outcomes : call_returns(h, o)
SendDone == \E h \in Tasks : send_done(h)
ClockTick == \E d \in TickSteps : Tick(d)

Next == OnMessage \/ Deny \/ CallReturns \/ SendDone \/ ClockTick

Spec == Init /\ [][Next]_vars

\* ------------------------------------------- start-up with an old file
\* the record restricted to the fields in S
Partial(rec, S) == [k \in S |-> rec[k]]

\* the file holds a record of u1 with any subset of the four fields
LegacyInit ==
  \E S \in SUBSET {"count", "image_count", "last_reset", "last_image_reset"} :
    /\ clock = 12 * MinutesPerHour
    /\ file = SetField(EmptyMap, "u1",
                       Partial(Record(REQUEST_LIMIT, IMAGE_REQUEST_LIMIT - 1, 0, 0), S))
    /\ user_request_data = Load(file)
    /\ task = [h \in Tasks |-> IdleTask]
    /\ admitted = AdmittedIn(file)
    /\ inbound = Bag({<<Msg("u1", Asking, 0), 1>>, <<Msg("u1", MakeCat, 0), 1>>})
    /\ probe = NoProbe

LegacySpec == LegacyInit /\ [][Next]_vars

\* ----------------------------------------- time_until_reset on its own
\* the reset timestamps and the distances from them at which the function is called
ProbeResets == {0, 1}

ProbeOffsets ==
  {0, 1, MinutesPerHour - 1, MinutesPerHour, MinutesPerHour + 1, 12 * MinutesPerHour,
   timedelta(RESET_HOURS) - 1, timedelta(RESET_HOURS), timedelta(RESET_HOURS) + 1,
   timedelta(RESET_HOURS) + MinutesPerHour, timedelta(RESET_HOURS) + 12 * MinutesPerHour}

\* one record, and two times t1 <= t2 at which its wait time will be asked for
WaitInit ==
  \E lr \in ProbeResets, rt \in {"last_reset", "last_image_reset"},
     o1 \in ProbeOffsets, o2 \in ProbeOffsets :
    /\ o1 <= o2
    /\ clock = lr
    /\ file = SetField(EmptyMap, "u1", Record(REQUEST_LIMIT, IMAGE_REQUEST_LIMIT, lr, lr))
    /\ user_request_data = Load(file)
    /\ task = [h \in Tasks |-> IdleTask]
    /\ admitted = AdmittedIn(file)
    /\ inbound = EmptyMap
    /\ probe = [reset_type |-> rt, t1 |-> lr + o1, t2 |-> lr + o2,
                w1 |-> NoWait, w2 |-> NoWait]

\* time_until_reset("u1", reset_type) called when datetime.now() is t1
ProbeFirst ==
  /\ probe.w1 = NoWait
  /\ clock' = probe.t1
  /\ probe' = [probe EXCEPT !.w1 = time_until_reset(user_request_data, "u1",
                                                    probe.reset_type, clock')]
  /\ UNCHANGED <<user_request_data, file, task, admitted, inbound>>

\* ... and called again when datetime.now() is t2
ProbeSecond ==
  /\ probe.w1 # NoWait
  /\ probe.w2 = NoWait
  /\ clock' = probe.t2
  /\ probe' = [probe EXCEPT !.w2 = time_until_reset(user_request_data, "u1",
                                                    probe.reset_type, clock')]
  /\ UNCHANGED <<user_request_data, file, task, admitted, inbound>>

WaitNext == ProbeFirst \/ ProbeSecond

WaitSpec == WaitInit /\ [][WaitNext]_vars

\* the event loop runs every ready handler: a call in progress returns or raises,
\* a send in progress completes
\* The start-ups it is followed through: little traffic to come, and a file
\* written by this version of the bot (every record with its four fields).
ShortBoots ==
  {b \in Boots :
     /\ \A m \in DOMAIN b.inbound : b.inbound[m] <= Extra
     /\ \A u \in DOMAIN b.file : DOMAIN b.file[u] = DOMAIN Record(0, 0, 0, 0)}

FairInit ==
  \E b \in ShortBoots :
    /\ clock = b.clock
    /\ file = b.file
    /\ user_request_data = Load(b.file)
    /\ task = [h \in Tasks |-> IdleTask]
    /\ admitted = AdmittedIn(b.file)
    /\ inbound = b.inbound
    /\ probe = NoProbe

FairSpec ==
  /\ FairInit /\ [][Next]_vars
  /\ WF_vars(Deny) /\ WF_vars(CallReturns) /\ WF_vars(SendDone)

TypeOK ==
  /\ clock \in 0..MaxTime
  /\ DOMAIN user_request_data \subseteq Users
  /\ \A h \in Tasks : task[h].pc \in {"idle", "denied", "calling", "sending"}

\* ------------------------------------------------------------------ claims
\* the fields and the quota of a capability, as the claims name them
CounterOf(kind) == IF kind = "text" THEN "count" ELSE "image_count"
StampOf(kind) == IF kind = "text" THEN "last_reset" ELSE "last_image_reset"
QuotaOf(kind) == IF kind = "text" THEN 24 ELSE 12

\* the stored counter of a capability, 0 when the user or the field is absent
Cnt(data, u, kind) ==
  IF u \in DOMAIN data /\ Has(data[u], CounterOf(kind)) THEN data[u][CounterOf(kind)] ELSE 0

Kinds == {"text", "image"}

Admitted(h) == task[h].pc = "calling" \/ (task[h].pc = "sending" /\ task[h].reply # DenialText(task[h].kind))

\* C1: in every reachable state every user's text counter is <= 24 and image
\* counter is <= 12, and a step that raises a counter raises it by one from a
\* value strictly below the limit (or to 1 right after a reset or creation).
C1_CountersWithinLimits ==
  /\ [](\A u \in Users, k \in Kinds : Cnt(user_request_data, u, k) <= QuotaOf(k))
  /\ [][\A u \in Users, k \in Kinds :
          Cnt(user_request_data', u, k) > Cnt(user_request_data, u, k)
            => /\ Cnt(user_request_data', u, k) = Cnt(user_request_data, u, k) + 1
               /\ Cnt(user_request_data, u, k) < QuotaOf(k)]_vars

\* the start-up scenarios, told apart by the traffic they carry
FromEmptyText == Msg("u1", AskQ, MaxAttachments) \in DOMAIN inbound
NearLimit == Msg("u1", AskQ, 0) \in DOMAIN inbound /\ Msg("u1", MakeCat, 0) \in DOMAIN inbound
Legacy == Msg("u1", Asking, 0) \in DOMAIN inbound

\* the message handled by the step, if any
Handled(m) == m \in DOMAIN inbound /\ inbound'[m] = inbound[m] - 1

\* task h starts in this step
Starts(h) == task[h].pc = "idle" /\ task'[h].pc # "idle"

C1_Witness ==
  \E u \in Users :
    /\ Cnt(user_request_data, u, "text") = REQUEST_LIMIT
    /\ Cnt(user_request_data, u, "image") = IMAGE_REQUEST_LIMIT
    /\ \E h \in Tasks : task[h].pc = "denied" /\ task[h].user = u

\* C2: while a request that was admitted on the last free slot of a user's
\* capability is still in progress, a second request of the same user for the
\* same capability that starts in the same window is denied and changes no
\* counter: one admission, one denial, never two admissions.
C2_OneAdmissionOnLastSlot ==
  [][\A g \in Tasks, h \in Tasks :
       ( /\ g # h
         /\ Admitted(g) /\ task[g].last
         /\ Starts(h)
         /\ task'[h].user = task[g].user /\ task'[h].kind = task[g].kind
         /\ task'[h].window = task[g].window )
       => /\ task'[h].pc = "denied"
          /\ Cnt(user_request_data', task[g].user, task[g].kind) = QuotaOf(task[g].kind)
          /\ Admitted(g)' ]_vars

C2_Witness ==
  \E g \in Tasks, h \in Tasks :
    /\ g # h
    /\ task[g].pc = "sending" /\ Admitted(g) /\ task[g].last
    /\ task[h].pc = "sending" /\ ~Admitted(h)
    /\ task[h].user = task[g].user /\ task[h].kind = task[g].kind
    /\ task[h].window = task[g].window

\* C3: the stored text counter of every user equals the number of text
\* requests admitted since the user's last text reset or record creation; a
\* text request is admitted as one of the requests 1..24 of its window, and a
\* request is denied only when 24 were admitted in the window.
C3_CounterAccounting ==
  /\ [](\A u \in Users : Cnt(user_request_data, u, "text") = admitted[u].text)
  /\ [][\A h \in Tasks :
          (Starts(h) /\ task'[h].kind = "text")
            => /\ task'[h].pc = "calling" => admitted'[task'[h].user].text \in 1..REQUEST_LIMIT
               /\ task'[h].pc = "denied" => admitted'[task'[h].user].text = REQUEST_LIMIT
               /\ task'[h].pc \in {"calling", "denied"}]_vars

C3_Witness ==
  /\ FromEmptyText
  /\ admitted["u1"].text = REQUEST_LIMIT
  /\ inbound[Msg("u1", AskQ, 0)] + inbound[Msg("u1", AskQ, MaxAttachments)] = Extra
  /\ \E h \in Tasks : task[h].pc = "denied" /\ task[h].user = "u1"

AllFields == {"count", "image_count", "last_reset", "last_image_reset"}

\* the window test as the claims state it: strictly more than 24 hours, in minutes
Over24h(now, stamp) == now - fromisoformat(stamp) > 24 * 60

\* C4: when a message of an existing user is handled at time now, for each
\* capability whose counter and reset timestamp the record holds: if
\* now - lastReset > 24h the reset timestamp becomes now and the counter
\* restarts from 0 (0, or 1 when this message is then admitted); if
\* now - lastReset <= 24h the reset timestamp is unchanged and the counter is
\* what it was (plus 1 when this message is admitted).
C4_ResetRule ==
  [][\A m \in Messages, k \in Kinds :
       ( /\ Handled(m)
         /\ m.author \in DOMAIN user_request_data
         /\ Has(user_request_data[m.author], CounterOf(k))
         /\ Has(user_request_data[m.author], StampOf(k)) )
       => LET old == user_request_data[m.author]
              new == user_request_data'[m.author]
              inc == IF Classify(m.content) = k THEN {0, 1} ELSE {0}
          IN IF Over24h(clock, old[StampOf(k)])
             THEN /\ new[StampOf(k)] = isoformat(clock)
                  /\ new[CounterOf(k)] \in inc
             ELSE /\ new[StampOf(k)] = old[StampOf(k)]
                  /\ new[CounterOf(k)] - old[CounterOf(k)] \in inc]_vars

C4_Witness ==
  /\ NearLimit
  /\ Over24h(fromisoformat(user_request_data["u1"]["last_reset"]), isoformat(0))
  /\ user_request_data["u1"]["count"] = 0
  /\ clock = fromisoformat(user_request_data["u1"]["last_reset"])

\* C5: a refresh at a time more than 24h after lastTextReset but not more
\* than 24h after lastImageReset resets the text counter and lastTextReset
\* and leaves lastImageReset and the image counter as they were (the image
\* counter plus 1 when the message is an admitted image request); and the
\* same with text and image swapped.
C5_IndependentWindows ==
  [][\A m \in Messages, k \in Kinds :
       ( /\ Handled(m)
         /\ m.author \in DOMAIN user_request_data
         /\ DOMAIN user_request_data[m.author] = AllFields )
       => LET old == user_request_data[m.author]
              new == user_request_data'[m.author]
              other == IF k = "text" THEN "image" ELSE "text"
              inc == IF Classify(m.content) = other /\ old[CounterOf(other)] < QuotaOf(other)
                     THEN 1 ELSE 0
          IN ( /\ Over24h(clock, old[StampOf(k)])
               /\ ~Over24h(clock, old[StampOf(other)]) )
             => /\ new[StampOf(k)] = isoformat(clock)
                /\ new[CounterOf(k)] = IF Classify(m.content) = k THEN 1 ELSE 0
                /\ new[StampOf(other)] = old[StampOf(other)]
                /\ new[CounterOf(other)] = old[CounterOf(other)] + inc]_vars

C5_Witness ==
  /\ Legacy
  /\ DOMAIN user_request_data["u1"] = AllFields
  /\ Over24h(fromisoformat(user_request_data["u1"]["last_reset"]), isoformat(0))
  /\ fromisoformat(user_request_data["u1"]["last_image_reset"])
       > fromisoformat(user_request_data["u1"]["last_reset"])

Apologies == {ApologyText(k, c) : k \in Kinds, c \in Raised}

\* C6: when a request is admitted the file already holds the incremented
\* counter in the state in which the capability call is outstanding; a call
\* that fails changes neither the mapping nor the file, leaves no further
\* call to make and starts one apology; after the apology the handler ends
\* without calling again.
C6_ChargeBeforeCallNoRefund ==
  /\ [][\A h \in Tasks, m \in Messages :
          (Handled(m) /\ Starts(h) /\ task'[h].pc = "calling")
            => /\ file' = user_request_data'
               /\ Cnt(file', m.author, task'[h].kind)
                    \in {1, Cnt(file, m.author, task'[h].kind) + 1}]_vars
  /\ [][\A h \in Tasks :
          (task[h].pc = "calling" /\ task'[h].exc # "none")
            => /\ user_request_data' = user_request_data
               /\ file' = file
               /\ task'[h].pc = "sending"
               /\ task'[h].left = 0
               /\ task'[h].reply \in Apologies]_vars
  /\ [][\A h \in Tasks :
          (task[h].exc # "none" /\ task'[h] # task[h])
            => /\ task'[h] = IdleTask
               /\ user_request_data' = user_request_data
               /\ file' = file]_vars

C6_Witness ==
  \E h \in Tasks :
    /\ task[h].pc = "sending"
    /\ task[h].exc = "AuthenticationError"
    /\ task[h].last
    /\ task[h].window = file[task[h].user][StampOf(task[h].kind)]
    /\ Cnt(file, task[h].user, task[h].kind) = QuotaOf(task[h].kind)

\* C7: when a capability call fails, the reply being sent is the apology of
\* the except clause written for the raised error's own class
\* (APIError, APIConnectionError, RateLimitError, AuthenticationError, other).
C7_KindSpecificApology ==
  \A h \in Tasks :
    (task[h].pc = "sending" /\ task[h].exc # "none")
      => task[h].reply = ApologyText(task[h].kind, task[h].exc)

\* C8: a request of an existing user whose unexpired window's counter is at
\* or over the limit is denied and leaves that counter and its reset
\* timestamp as they were; a denied handler next sends the quota-exceeded
\* message of its capability with the wait time computed from that
\* capability's reset timestamp, changing no stored data; and after that
\* message the handler ends (no capability call, no second message).
C8_DenialPath ==
  /\ [][\A m \in Messages :
          LET u == m.author
              k == Classify(m.content)
          IN ( /\ Handled(m)
               /\ k # "none"
               /\ u \in DOMAIN user_request_data
               /\ Has(user_request_data[u], CounterOf(k))
               /\ Has(user_request_data[u], StampOf(k))
               /\ ~Over24h(clock, user_request_data[u][StampOf(k)])
               /\ user_request_data[u][CounterOf(k)] >= QuotaOf(k) )
             => /\ \E h \in Tasks :
                     /\ Starts(h) /\ task'[h].pc = "denied"
                     /\ task'[h].user = u /\ task'[h].kind = k
                /\ user_request_data'[u][CounterOf(k)] = user_request_data[u][CounterOf(k)]
                /\ user_request_data'[u][StampOf(k)] = user_request_data[u][StampOf(k)]]_vars
  /\ [][\A h \in Tasks :
          (task[h].pc = "denied" /\ task'[h] # task[h])
            => /\ task'[h].pc = "sending"
               /\ task'[h].reply = DenialText(task[h].kind)
               /\ task'[h].wait =
                    time_until_reset(user_request_data, task[h].user, StampOf(task[h].kind), clock)
               /\ user_request_data' = user_request_data
               /\ file' = file]_vars
  /\ [][\A h \in Tasks :
          (task[h].pc = "sending" /\ task[h].wait # NoWait /\ task'[h] # task[h])
            => task'[h] = IdleTask]_vars

C8_Witness ==
  \E h \in Tasks :
    /\ task[h].pc = "sending"
    /\ task[h].reply = DenialText("text")
    /\ task[h].wait # NoWait
    /\ user_request_data[task[h].user]["count"] = REQUEST_LIMIT
    /\ user_request_data[task[h].user]["last_reset"]
         # user_request_data[task[h].user]["last_image_reset"]

\* C9: in every state (each is a point at which a handler has yielded,
\* returned, or is blocked in a call) the file holds exactly the in-memory
\* mapping, and its counters are the numbers of requests admitted since the
\* last reset, so a restart loses no admitted consumption.
C9_PersistedEqualsMemory ==
  /\ file = user_request_data
  /\ \A u \in Users, k \in Kinds : Cnt(file, u, k) = admitted[u][k]

C9_Witness ==
  \E h \in Tasks :
    /\ task[h].pc = "calling"
    /\ file = user_request_data
    /\ Cnt(file, task[h].user, task[h].kind) = 1
    /\ task[h].window = isoformat(clock)
    /\ NearLimit

\* C10: when a handler reaches its admission check, in the same step the
\* author's record exists with the checked counter and reset timestamp, the
\* checked window is not expired at the handling time, and the request is
\* denied only with the refreshed counter at the limit and admitted only
\* with the refreshed counter below it.
C10_RefreshBeforeCheck ==
  [][\A h \in Tasks, m \in Messages :
       (Handled(m) /\ Starts(h))
         => LET u == m.author
                k == task'[h].kind
            IN /\ k = Classify(m.content)
               /\ task'[h].user = u
               /\ u \in DOMAIN user_request_data'
               /\ Has(user_request_data'[u], CounterOf(k))
               /\ Has(user_request_data'[u], StampOf(k))
               /\ ~Over24h(clock', user_request_data'[u][StampOf(k)])
               /\ task'[h].pc = "denied" => user_request_data'[u][CounterOf(k)] >= QuotaOf(k)
               /\ task'[h].pc = "calling" => user_request_data'[u][CounterOf(k)] - 1 < QuotaOf(k)
               /\ task'[h].pc \in {"denied", "calling"}]_vars

C10_Witness ==
  \E h \in Tasks :
    /\ NearLimit
    /\ task[h].pc = "calling"
    /\ task[h].kind = "image"
    /\ task[h].window = isoformat(clock)
    /\ Over24h(clock, isoformat(0))
    /\ user_request_data[task[h].user]["image_count"] = 1


\* a message waits for delivery and a task slot is free to handle it
Deliverable == \E m \in DOMAIN inbound : inbound[m] > 0

\* C11: while the capability call of one message is outstanding, the handler
\* of another waiting message can start and do its own quota check-and-record:
\* the outstanding call excludes no other handler.
C11_CallHoldsNoHandler ==
  (/\ \E g \in Tasks : task[g].pc = "calling"
   /\ \E h \in Tasks : task[h].pc = "idle"
   /\ Deliverable)
  => ENABLED OnMessage


\* the steps a handler's position may take
PcStep(h) ==
  \/ task'[h].pc = task[h].pc
  \/ task[h].pc = "idle" /\ task'[h].pc \in {"denied", "calling"}
  \/ task[h].pc = "denied" /\ task'[h].pc = "sending"
       /\ task'[h].reply = DenialText(task[h].kind)
  \/ task[h].pc = "calling" /\ task'[h].pc = "sending"
       /\ task'[h].reply # DenialText(task[h].kind)
       /\ (task'[h].exc = "none") = (task'[h].reply = AnswerText(task[h].kind))
  \/ task[h].pc = "sending" /\ task'[h].pc = "calling"
       /\ task[h].reply = AnswerText(task[h].kind) /\ task[h].exc = "none"
  \/ task[h].pc = "sending" /\ task'[h].pc = "idle"

Exhausted == Msg("u2", AskQ, MaxAttachments) \in DOMAIN inbound

OtherKind(k) == IF k = "text" THEN "image" ELSE "text"

\* C13: a step that handles a message of u leaves every other user's record
\* (and its absence) as it was, and no other step changes the mapping; whether
\* a request of u for a capability is denied is decided by u's own counter and
\* reset timestamp of that capability alone; and the request changes u's
\* counter of the other capability at most by that capability's own reset.
C13_Isolation ==
  [][/\ \A m \in Messages :
          Handled(m) =>
            \A v \in Users \ {m.author} :
              /\ (v \in DOMAIN user_request_data') = (v \in DOMAIN user_request_data)
              /\ v \in DOMAIN user_request_data => user_request_data'[v] = user_request_data[v]
     /\ (\A m \in Messages : ~Handled(m)) => user_request_data' = user_request_data
     /\ \A h \in Tasks :
          Starts(h) =>
            LET u == task'[h].user
                k == task'[h].kind
                own == user_request_data[u]
            IN /\ (task'[h].pc = "denied") =
                    ( /\ u \in DOMAIN user_request_data
                      /\ Has(own, CounterOf(k))
                      /\ own[CounterOf(k)] >= QuotaOf(k)
                      /\ Has(own, StampOf(k)) => ~Over24h(clock, own[StampOf(k)]) )
               /\ Cnt(user_request_data', u, OtherKind(k))
                    \in {Cnt(user_request_data, u, OtherKind(k)), 0}]_vars

C13_Witness ==
  /\ Exhausted
  /\ Cnt(user_request_data, "u1", "text") = 24
  /\ Cnt(user_request_data, "u1", "image") = 1
  /\ Cnt(user_request_data, "u2", "image") = 1
  /\ \E g \in Tasks, h \in Tasks :
       /\ task[g].user = "u1" /\ task[g].pc = "sending"
       /\ task[g].reply = DenialText("text")
       /\ task[h].user = "u2" /\ task[h].kind = "image" /\ task[h].pc = "calling"


\* the step admits a request for capability k
Admits(k) == \E h \in Tasks : Starts(h) /\ task'[h].pc = "calling" /\ task'[h].kind = k

\* C14: the first handled message of any kind from a user who is not the bot
\* and has no record adds exactly that user's record, with all four fields, both
\* reset timestamps equal to the handling time and both counters 0 (1 for the
\* capability the same message is admitted to), and the file holds it; handling
\* a message of a user whose record is complete and whose windows have not
\* expired leaves the record as it was apart from the admission's increment;
\* no step removes a record.
C14_LazyCreation ==
  [][/\ \A m \in Messages :
          (Handled(m) /\ m.author # Bot) =>
            LET u == m.author
                old == user_request_data[u]
                new == user_request_data'[u]
            IN /\ u \notin DOMAIN user_request_data =>
                    /\ DOMAIN user_request_data' = DOMAIN user_request_data \cup {u}
                    /\ DOMAIN new = AllFields
                    /\ \A k \in Kinds :
                         /\ fromisoformat(new[StampOf(k)]) = clock
                         /\ new[CounterOf(k)] = IF Admits(k) THEN 1 ELSE 0
                    /\ file' = user_request_data'
               /\ ( /\ u \in DOMAIN user_request_data
                    /\ DOMAIN old = AllFields
                    /\ \A k \in Kinds : ~Over24h(clock, old[StampOf(k)]) ) =>
                    /\ DOMAIN new = AllFields
                    /\ \A k \in Kinds :
                         /\ new[StampOf(k)] = old[StampOf(k)]
                         /\ new[CounterOf(k)] = old[CounterOf(k)] + IF Admits(k) THEN 1 ELSE 0
     /\ DOMAIN user_request_data \subseteq DOMAIN user_request_data']_vars

C14_Witness ==
  /\ inbound = Bag({<<Msg("u1", Asking, 1), 0>>, <<Msg("u1", MakeCat, 0), 0>>,
                    <<Msg("u2", MakeCat, 1), 1>>, <<Msg("u2", Hello, 0), 0>>,
                    <<Msg(Bot, AskQ, 0), 1>>})
  /\ DOMAIN user_request_data = {"u1", "u2"}
  /\ user_request_data["u2"] = Record(0, 0, clock, clock)
  /\ user_request_data["u1"] = Record(1, 1, clock, clock)
  /\ file = user_request_data


\* a displayed wait time <<hours, minutes>> in minutes
InMinutes(w) == w[1] * 60 + w[2]

\* the reset timestamp of the probed record, in minutes
ProbedReset == fromisoformat(user_request_data["u1"][probe.reset_type])

\* C15: for one reset timestamp and two times t1 <= t2 inside the window
\* [lastReset, lastReset + 24h], the wait time returned at t2 is not greater
\* than the wait time returned at t1.
C15_WaitNonIncreasing ==
  ( /\ probe.w1 # NoWait /\ probe.w2 # NoWait
    /\ ProbedReset <= probe.t1 /\ probe.t1 <= probe.t2
    /\ probe.t2 <= ProbedReset + 24 * 60 )
  => InMinutes(probe.w2) <= InMinutes(probe.w1)

\* the whole hours and remainder minutes of d minutes, zero for negative d
Floored(d) == IF d < 0 THEN <<0, 0>> ELSE <<d \div 60, d % 60>>

\* C16: the wait time returned at time now is the whole hours and remainder
\* minutes of lastReset + 24h - now when that duration is between 0 and 24h,
\* and zero hours zero minutes when it is negative.
C16_WaitValue ==
  probe.w1 # NoWait => probe.w1 = Floored(ProbedReset + 24 * 60 - probe.t1)


\* minutes since the reset timestamp of capability k in the record of u
Age(u, k) == clock - fromisoformat(user_request_data[u][StampOf(k)])

\* the record of u holds the counter and the reset timestamp of capability k
Holds(u, k) ==
  /\ u \in DOMAIN user_request_data
  /\ Has(user_request_data[u], CounterOf(k))
  /\ Has(user_request_data[u], StampOf(k))

\* C17: a request handled at any now >= lastReset + 24h, the instant
\* lastReset + 24h included, finds its counter reset to 0 and is admitted.
C17_FreshWindowAtBoundary ==
  [][\A h \in Tasks :
       LET u == task'[h].user
           k == task'[h].kind
       IN (Starts(h) /\ Holds(u, k) /\ Age(u, k) >= 24 * 60)
          => /\ task'[h].pc = "calling"
             /\ user_request_data'[u][CounterOf(k)] = 1]_vars

\* C17 as amended: a request handled at now > lastReset + 24h finds its
\* counter reset to 0 and is admitted into a window that starts at now; at
\* now = lastReset + 24h exactly nothing is reset and a user at the limit is
\* denied, with counter and reset timestamp unchanged.
C17_FreshWindowAfterBoundary ==
  [][\A h \in Tasks :
       LET u == task'[h].user
           k == task'[h].kind
           old == user_request_data[u]
           new == user_request_data'[u]
       IN (Starts(h) /\ Holds(u, k))
          => /\ Age(u, k) > 24 * 60
                => /\ task'[h].pc = "calling"
                   /\ new[CounterOf(k)] = 1
                   /\ fromisoformat(new[StampOf(k)]) = clock
             /\ (Age(u, k) = 24 * 60 /\ old[CounterOf(k)] >= QuotaOf(k))
                => /\ task'[h].pc = "denied"
                   /\ new[CounterOf(k)] = old[CounterOf(k)]
                   /\ new[StampOf(k)] = old[StampOf(k)]]_vars

C17_Witness ==
  /\ NearLimit
  /\ clock = 24 * 60
  /\ Cnt(user_request_data, "u1", "text") = 24
  /\ fromisoformat(user_request_data["u1"]["last_reset"]) = 0
  /\ \E h \in Tasks :
       /\ task[h].pc = "sending" /\ task[h].user = "u1"
       /\ task[h].reply = DenialText("text") /\ task[h].wait = <<0, 0>>


\* the text begins with one of the two triggers
Triggered(content) ==
  \E n \in 0..Len(content) :
    SubSeq(content, 1, n) \in {<<"!", "a", "s", "k">>, <<"!", "m", "a", "k", "e">>}

\* C18: handling a message written by the bot itself changes neither the
\* mapping nor the file and starts no reply and no capability call; handling a
\* message of another author whose text begins with neither "!ask" nor "!make"
\* starts no reply and no capability call and raises no counter.
C18_IgnoredMessages ==
  [][\A m \in Messages :
       Handled(m) =>
         /\ m.author = Bot => UNCHANGED <<user_request_data, file, task>>
         /\ (m.author # Bot /\ ~Triggered(m.content)) =>
              /\ task' = task
              /\ \A k \in Kinds :
                   Cnt(user_request_data', m.author, k) <= Cnt(user_request_data, m.author, k)]_vars

C18_Witness ==
  /\ Msg(Bot, AskQ, 0) \in DOMAIN inbound /\ inbound[Msg(Bot, AskQ, 0)] = 0
  /\ inbound[Msg("u2", Hello, 0)] = 0
  /\ DOMAIN user_request_data = {"u2"}
  /\ user_request_data["u2"] = Record(0, 0, clock, clock)
  /\ \A h \in Tasks : task[h].pc = "idle"


\* the calls the claim expects of an admitted request when none fails
Expected(h) ==
  IF task[h].kind = "text" /\ task[h].attachments > 0 THEN task[h].attachments ELSE 1

\* C19: an admitted request takes exactly one slot however many attachments it
\* has; a text request with k >= 1 attachments makes one call per attachment,
\* the next call only after the answer to the previous one was sent, and ends
\* after k answers or after the apology for the first failing call; a text
\* request without attachments and an image request make exactly one call.
C19_OneSlotManyCalls ==
  /\ [](\A h \in Tasks : Admitted(h) => task[h].calls \in 1..Expected(h))
  /\ [][\A h \in Tasks :
          /\ (task[h].pc # "idle" /\ task'[h] # task[h]) =>
               user_request_data' = user_request_data
          /\ (Starts(h) /\ task'[h].pc = "calling") =>
               /\ task'[h].calls = 1
               /\ Cnt(user_request_data', task'[h].user, task'[h].kind)
                    \in {Cnt(user_request_data, task'[h].user, task'[h].kind) + 1, 1}
               /\ Cnt(user_request_data', task'[h].user, OtherKind(task'[h].kind))
                    \in {Cnt(user_request_data, task'[h].user, OtherKind(task'[h].kind)), 0}
          /\ (task[h].pc = "calling" /\ task'[h].pc = "sending") =>
               task'[h].calls = task[h].calls
          /\ (task[h].pc = "sending" /\ task'[h].pc = "calling") =>
               /\ task[h].kind = "text"
               /\ task[h].reply = AnswerText("text") /\ task[h].exc = "none"
               /\ task'[h].calls = task[h].calls + 1
          /\ (Admitted(h) /\ task[h].pc = "sending" /\ task'[h].pc = "idle") =>
               \/ task[h].reply \in Apologies
               \/ task[h].calls = Expected(h)]_vars

C19_Witness ==
  \E h \in Tasks :
    /\ task[h].pc = "sending" /\ task[h].kind = "text"
    /\ task[h].attachments = MaxAttachments /\ task[h].calls = MaxAttachments
    /\ task[h].reply = AnswerText("text")
    /\ Cnt(user_request_data, task[h].user, "text") = 1


\* C20: handling the first message of a user whose loaded record lacks any
\* subset of the four fields leaves the record with all four fields, and the
\* admission check of a text or image request then reads its counter: the
\* request is denied or admitted.
C20_AllFieldsDefaulted ==
  [][\A m \in Messages :
       (Handled(m) /\ m.author # Bot /\ m.author \in DOMAIN user_request_data) =>
          /\ DOMAIN user_request_data'[m.author] = AllFields
          /\ Triggered(m.content) => \E h \in Tasks : Starts(h)]_vars

\* the text begins with "!ask"
AskTriggered(content) ==
  \E n \in 0..Len(content) : SubSeq(content, 1, n) = <<"!", "a", "s", "k">>

\* C20 as amended: for a loaded record that holds count, each missing one of
\* image_count, last_reset and last_image_reset is filled on the first handled
\* message (the counter with 0, or 1 when the same message is admitted to it, a
\* timestamp with the handling time, a kept counter staying as loaded), and
\* the admission check then reads its counter; a record without count gets it
\* only from a reset of an expired text window, and otherwise stays without it
\* and the admission check of a text request reads the missing field: no reply.
C20_ThreeFieldsDefaulted ==
  [][\A m \in Messages :
       (Handled(m) /\ m.author # Bot /\ m.author \in DOMAIN user_request_data) =>
          LET old == user_request_data[m.author]
              new == user_request_data'[m.author]
              textReset == Has(old, "last_reset") /\ Over24h(clock, old["last_reset"])
          IN /\ Has(old, "count") =>
                  /\ DOMAIN new = AllFields
                  /\ ~Has(old, "image_count") =>
                       new["image_count"] = IF Admits("image") THEN 1 ELSE 0
                  /\ ~Has(old, "last_reset") =>
                       /\ fromisoformat(new["last_reset"]) = clock
                       /\ new["count"] = old["count"] + IF Admits("text") THEN 1 ELSE 0
                  /\ ~Has(old, "last_image_reset") =>
                       fromisoformat(new["last_image_reset"]) = clock
                  /\ Triggered(m.content) => \E h \in Tasks : Starts(h)
             /\ ~Has(old, "count") =>
                  /\ Has(new, "count") = textReset
                  /\ {"image_count", "last_reset", "last_image_reset"} \subseteq DOMAIN new
                  /\ (~textReset /\ AskTriggered(m.content)) => task' = task]_vars

C20_Witness ==
  /\ user_request_data["u1"] = Record(24, 1, 0, 12 * 60)
  /\ clock = 12 * 60
  /\ \E g \in Tasks, h \in Tasks :
       /\ task[g].pc = "sending" /\ task[g].kind = "text"
       /\ task[h].pc = "calling" /\ task[h].kind = "image"

====
